---- MODULE Spec2Model ----
(***************************************************************************)
(* To-Do List API (BackendAPIServer/src/api): registration, login, bearer  *)
(* token resolution and ownership-scoped task CRUD over a relational       *)
(* store.  Every handler is one action per database round trip it awaits,  *)
(* the INSERT and COMMIT of a db.commit() included, and the identity       *)
(* dependency of a request is two: the decoding of the token on the        *)
(* application's clock and the SELECT that begins the transaction.  The    *)
(* requests of different sessions and the clock interleave between any two *)
(* of them.  The UPDATE or DELETE of  *)
(* a db.commit() is one action with its COMMIT: the statement holds the    *)
(* lock of its row until the COMMIT.                                       *)
(***************************************************************************)
EXTENDS Integers, Sequences, FiniteSets, TLC

VARIABLES users, user_seq, tasks, task_seq, now, ticks, issued, sess, last

vars == <<users, user_seq, tasks, task_seq, now, ticks, issued, sess, last>>

(***************************************************************************)
(* Bounds of the model.                                                    *)
(***************************************************************************)
MaxReqs == 2        \* request sessions that can be in flight together
MaxUserSeq == 2     \* INSERTs into users the model follows
MaxTaskSeq == 2     \* INSERTs into tasks the model follows
MaxTicks == 2       \* clock advances the model follows
MaxTaskTicks == 1   \* clock advances while task requests are in flight
MaxIssued == 1      \* tokens the clients hold

Reqs == 1..MaxReqs

(***************************************************************************)
(* Request inputs.                                                         *)
(***************************************************************************)
Usernames == {"alice", "bob"}
Emails == {"a@x.com", "b@x.com"}
Passwords == {"secret1", "secret2"}

\* Optional[T]: None is the empty tuple, a value v is <<v>>.
None == <<>>
Some(v) == <<v>>

(***************************************************************************)
(* security.py                                                             *)
(***************************************************************************)
SECRET_KEY == "change_this_secret"
ALGORITHM == "HS256"
ACCESS_TOKEN_EXPIRE_MINUTES == 60 * 24

\* A key the server does not hold.
OtherKey == "not_the_secret"

\* bcrypt: the digest binds the salt and the plaintext; the salt is stored
\* with the digest.
BcryptSalt == "salt"
get_password_hash(password) ==
    [scheme |-> "bcrypt", salt |-> BcryptSalt, digest |-> <<BcryptSalt, password>>]

verify_password_unsalted(plain_password, hashed_password) ==
    hashed_password.digest = <<"", plain_password>>

verify_password(plain_password, hashed_password) ==
    hashed_password.digest = <<hashed_password.salt, plain_password>>

\* HMAC-SHA256 of the claims under a key: equal exactly for equal key and claims.
SignHeaderOnly(key, claims) == [alg |-> ALGORITHM, key |-> key, msg |-> <<>>]
Sign(key, claims) == [alg |-> ALGORITHM, key |-> key, msg |-> claims]

jwt_encode(claims, key) == [claims |-> claims, sig |-> Sign(key, claims)]

\* create_access_token(data) with the default expires_delta; utcnow is clock,
\* in whole seconds as jose writes and reads exp.
create_access_token(data, clock) ==
    LET expire == clock + ACCESS_TOKEN_EXPIRE_MINUTES * 60
        to_encode == IF "sub" \in DOMAIN data
                        THEN [sub |-> data.sub, exp |-> expire]
                        ELSE [exp |-> expire]
    IN  jwt_encode(to_encode, SECRET_KEY)

\* jose's expiry check: ExpiredSignatureError when exp < now.
ExpiredNever(claims, clock) == FALSE
Expired(claims, clock) == "exp" \in DOMAIN claims /\ claims.exp < clock

\* jwt.decode: the signature, then the expiry.
SignatureOKAny(token) == token.sig.msg = token.claims
SignatureOK(token) == token.sig = Sign(SECRET_KEY, token.claims)

\* decode_access_token: the payload, or None on any JWTError.
decode_access_token(token, clock) ==
    IF SignatureOK(token) /\ ~Expired(token.claims, clock)
       THEN Some(token.claims)
       ELSE None

(***************************************************************************)
(* Responses.  An HTTPException raised by a handler is the response with   *)
(* its status and detail; any other exception leaves the handler unhandled *)
(* and the server answers 500.                                             *)
(***************************************************************************)
Response(status, detail, body) ==
    [status |-> status, detail |-> detail, raised |-> "", body |-> body]

HTTPException(status, detail) ==
    [status |-> status, detail |-> detail, raised |-> "HTTPException", body |-> None]

Unhandled(exception) ==
    [status |-> 500, detail |-> "Internal Server Error", raised |-> exception,
     body |-> None]

\* A request session: op names the handler, pc the round trip it awaits next.
Idle == [op |-> "idle", pc |-> "idle"]

\* The response most recently sent, with the operation, bearer token and path
\* parameter of the request it answers (arg); n counts the responses modulo 2,
\* so that every response changes last.
Done(op, arg, resp) ==
    [op |-> op, n |-> 1 - last.n, arg |-> arg, status |-> resp.status,
     detail |-> resp.detail, raised |-> resp.raised, body |-> resp.body]

(***************************************************************************)
(* database_models.py: the users table.                                    *)
(***************************************************************************)
\* Column(..., unique=True) on username and on email: no row of the table
\* holds the username or the email of the row.
UniqueUsernameOnly(table, row) ==
    \A u \in table : u.username # row.username

UsersUnique(table, row) ==
    \A u \in table : u.username # row.username /\ u.email # row.email

\* models.UserRead: the public projection, without the password hash.
UserRead(user_obj) ==
    [id |-> user_obj.id, username |-> user_obj.username, email |-> user_obj.email,
     created_at |-> user_obj.created_at]

\* Registrations choose one password; logins try it and another one.
UserRegistrations == [username : Usernames, email : Emails, password : {"secret1"}]

\* The registrations followed: each user's own, and one with the username of
\* the one and the email of the other.
SomeRegistrations ==
    {u \in UserRegistrations : ~(u.username = "bob" /\ u.email = "a@x.com")}
UserLogins == [username : Usernames, password : Passwords]

(***************************************************************************)
(* dependencies.py                                                         *)
(***************************************************************************)
credentials_exception == HTTPException(401, "Could not validate credentials.")

(***************************************************************************)
(* The tokens a client can present: those login returned, copies of them   *)
(* with a claim altered under the old signature, tokens signed with a key  *)
(* that is not the server's, a server-signed token with no subject, and a  *)
(* server-signed token for the name of a user whose record is not in the   *)
(* store: no handler removes a user record, and a token outlives a record  *)
(* removed in the database.                                                *)
(***************************************************************************)
TTL == ACCESS_TOKEN_EXPIRE_MINUTES * 60

Tampered(token) ==
    {[claims |-> [sub |-> u, exp |-> token.claims.exp], sig |-> token.sig] :
        u \in Usernames \ {token.claims.sub}}
    \cup {[claims |-> [sub |-> token.claims.sub, exp |-> token.claims.exp + TTL],
           sig |-> token.sig]}

Forged(clock) ==
    {jwt_encode([sub |-> u, exp |-> clock + TTL], OtherKey) : u \in Usernames}

\* A token under the server's key whose payload has no sub: what
\* create_access_token signs for the empty data.
NoSubject(clock) == create_access_token(<<>>, clock)

\* A token under the server's key, as login signs it, for a username no
\* record of the store has.
RemovedUsername == "carol"

Orphaned(clock) == create_access_token([sub |-> RemovedUsername], clock)

Presentable ==
    issued \cup UNION {Tampered(t) : t \in issued} \cup Forged(now)
           \cup {NoSubject(now), Orphaned(0)}

(***************************************************************************)
(* endpoints.py: POST /auth/register                                       *)
(***************************************************************************)
\* The registrations whose INSERT has yet to draw from the id sequence.
PendingInserts ==
    Cardinality({r \in Reqs : sess[r].op = "register" /\ sess[r].pc = "insert"})

\* The rows the other sessions have inserted and not yet committed.
UncommittedUsers(r) ==
    {sess[q].user_obj : q \in {q \in Reqs \ {r} : sess[q].op = "register"
                                                     /\ sess[q].pc = "commit"}}

\* A new request takes the first session that is free.
FirstIdle(r) == sess[r] = Idle /\ \A q \in Reqs : q < r => sess[q] # Idle

\* Lines 21-24: the existence query and scalar_one_or_none().  The query is
\* the session's first statement: its transaction begins here.
register_user_check(r, user_in) ==
    /\ FirstIdle(r)
    /\ LET existing == {u \in users : u.username = user_in.username
                                      \/ u.email = user_in.email}
       IN  IF Cardinality(existing) > 1
              THEN /\ last' = Done("register", user_in, Unhandled("MultipleResultsFound"))
                   /\ sess' = sess
              ELSE IF existing # {}
              THEN /\ last' = Done("register", user_in,
                                   HTTPException(400, "Username or email already in use."))
                   /\ sess' = sess
              ELSE /\ user_seq + PendingInserts < MaxUserSeq
                   /\ sess' = [sess EXCEPT ![r] =
                                 [op |-> "register", pc |-> "insert",
                                  user_in |-> user_in,
                                  user_obj |-> [username |-> user_in.username,
                                                email |-> user_in.email,
                                                hashed_password |->
                                                    get_password_hash(user_in.password)],
                                  began |-> now]]
                   /\ last' = last
    /\ UNCHANGED <<users, user_seq, tasks, task_seq, now, ticks, issued>>

\* The row of a registration's INSERT: the id is the next value of the
\* sequence, created_at the server's now(), the start of the transaction.
InsertedUser(session, id) ==
    [id |-> id,
     username |-> session.user_obj.username,
     email |-> session.user_obj.email,
     hashed_password |-> session.user_obj.hashed_password,
     created_at |-> session.began]

\* Lines 31-32, db.add and the flush of db.commit(): the INSERT.  The
\* sequence advances whether or not the row is accepted.  A committed row
\* with the username or the email refuses the INSERT, an IntegrityError
\* nothing catches; an uncommitted row of another session with the username
\* or the email makes the INSERT wait for that session's transaction to end.
\* An accepted row is visible to this session alone until the COMMIT.
register_user_insert(r) ==
    /\ sess[r].op = "register"
    /\ sess[r].pc = "insert"
    /\ LET row == InsertedUser(sess[r], user_seq + 1)
       IN  /\ user_seq' = user_seq + 1
           /\ IF ~UsersUnique(users, row)
                 THEN /\ sess' = [sess EXCEPT ![r] = Idle]
                      /\ last' = Done("register", sess[r].user_in,
                                      Unhandled("IntegrityError"))
                 ELSE /\ sess' = [sess EXCEPT ![r].user_obj = row,
                                              ![r].pc =
                                                 IF UsersUnique(UncommittedUsers(r), row)
                                                    THEN "commit" ELSE "insert_wait"]
                      /\ last' = last
    /\ UNCHANGED <<users, tasks, task_seq, now, ticks, issued>>

\* The INSERT that waited, once no uncommitted row stands in its way: it is
\* refused when the row it waited for was committed and accepted otherwise.
register_user_insert_resumes(r) ==
    /\ sess[r].op = "register"
    /\ sess[r].pc = "insert_wait"
    /\ UsersUnique(UncommittedUsers(r), sess[r].user_obj)
    /\ IF ~UsersUnique(users, sess[r].user_obj)
          THEN /\ sess' = [sess EXCEPT ![r] = Idle]
               /\ last' = Done("register", sess[r].user_in, Unhandled("IntegrityError"))
          ELSE /\ sess' = [sess EXCEPT ![r].pc = "commit"]
               /\ last' = last
    /\ UNCHANGED <<users, user_seq, tasks, task_seq, now, ticks, issued>>

\* Line 32, the COMMIT of db.commit(): the row is visible to every other
\* request from here on, while the handler waits at db.refresh.
register_user_commit(r) ==
    /\ sess[r].op = "register"
    /\ sess[r].pc = "commit"
    /\ users' = users \cup {sess[r].user_obj}
    /\ sess' = [sess EXCEPT ![r].pc = "refresh"]
    /\ UNCHANGED <<user_seq, tasks, task_seq, now, ticks, issued, last>>

\* Lines 33-36: db.refresh(user_obj) reads the row back by primary key and
\* the handler returns its projection.
register_user_refresh(r) ==
    /\ sess[r].op = "register"
    /\ sess[r].pc = "refresh"
    /\ LET row == {u \in users : u.id = sess[r].user_obj.id}
       IN  last' = Done("register", sess[r].user_in,
                        IF row = {}
                           THEN Unhandled("InvalidRequestError")
                           ELSE Response(200, "", UserRead(CHOOSE u \in row : TRUE)))
    /\ sess' = [sess EXCEPT ![r] = Idle]
    /\ UNCHANGED <<users, user_seq, tasks, task_seq, now, ticks, issued>>

(***************************************************************************)
(* endpoints.py: POST /auth/login                                          *)
(***************************************************************************)
LoginDetailUnknownUser(user) ==
    IF user = {} THEN "Unknown username." ELSE "Incorrect username or password."

LoginDetail(user) == "Incorrect username or password."

LoginAccepts(user, user_in) ==
    /\ user # {}
    /\ \E u \in user : verify_password(user_in.password, u.hashed_password)

login_user(user_in) ==
    LET user == {u \in users : u.username = user_in.username}
    IN  /\ IF ~LoginAccepts(user, user_in)
              THEN /\ last' = Done("login", user_in, HTTPException(401, LoginDetail(user)))
                   /\ issued' = issued
              ELSE LET u == CHOOSE u \in user : TRUE
                       token == create_access_token([sub |-> u.username], now)
                   IN  /\ Cardinality(issued \cup {token}) <= MaxIssued
                       /\ issued' = issued \cup {token}
                       /\ last' = Done("login", user_in,
                                       Response(200, "",
                                                [access_token |-> token,
                                                 token_type |-> "bearer"]))
        /\ UNCHANGED <<users, user_seq, tasks, task_seq, now, ticks, sess>>

(***************************************************************************)
(* endpoints.py: GET /users/me                                             *)
(***************************************************************************)
\* The request enters through Depends(get_current_user): the token is
\* decoded when it arrives (get_current_user_decode) and the session waits
\* for the SELECT.  This step is lines 26-31 of dependencies.py, the SELECT
\* of the user the payload names with the 401 for none, and the handler
\* body, which awaits nothing: the user selected is answered at once.
get_my_profile(r) ==
    LET found == {u \in users : u.username = sess[r].username}
    IN  /\ sess[r].op = "profile"
        /\ sess[r].pc = "identity"
        /\ last' = Done("profile", sess[r].arg,
                        IF found = {}
                           THEN credentials_exception
                           ELSE Response(200, "", UserRead(CHOOSE u \in found : TRUE)))
        /\ sess' = [sess EXCEPT ![r] = Idle]
        /\ UNCHANGED <<users, user_seq, tasks, task_seq, now, ticks, issued>>

(***************************************************************************)
(* database_models.py: the tasks table; models.py: the task schemas.       *)
(***************************************************************************)
Titles == {"buy milk", "walk dog"}
Descriptions == {"2 litres"}

Opt(S) == {None} \cup {Some(v) : v \in S}

\* A datetime the schemas parse from the request: with a UTC offset
\* ("2030-01-01T00:00:00Z") it carries a tzinfo, without one it is naive.
DueDates == [at : {"2030-01-01T00:00:00"}, tzinfo : Opt({"UTC"})]

\* Task.due_date is DateTime without timezone: the driver binds a naive
\* datetime or NULL to it and raises on a datetime that carries a tzinfo.
TimestampBinds(value) == IF value = None THEN TRUE ELSE value[1].tzinfo = None

\* models.TaskCreate: title required, description and due_date optional.
TaskCreates == [title : Titles, description : Opt(Descriptions), due_date : Opt(DueDates)]

\* models.TaskUpdate: every field Optional with default None.  sent is the
\* set of fields the request body names (pydantic's model_fields_set): the
\* keys of model_dump(exclude_unset=True); a field sent as null is in sent
\* with the value None.
TaskFields == {"title", "description", "completed", "due_date"}

TaskUpdates ==
    {t \in [sent : SUBSET TaskFields, title : Opt(Titles),
            description : Opt(Descriptions), completed : Opt(BOOLEAN),
            due_date : Opt(DueDates)] :
        \A k \in TaskFields \ t.sent : t[k] = None}

\* The columns of tasks a TaskUpdate can name: nullable=False ones hold the
\* value, nullable ones an Optional.
NotNull == {"title", "completed"}

\* setattr(task, key, value) for a key of the body gives the attribute a value
\* other than the one loaded.
Differs(task, task_in, k) ==
    IF k \in NotNull
       THEN task_in[k] = None \/ task_in[k][1] # task[k]
       ELSE task_in[k] # task[k]

\* The attributes whose value differs from the one loaded: the columns the
\* flush writes.
NetChanges(task, task_in) ==
    {k \in task_in.sent : Differs(task, task_in, k)}

\* A NULL written to a nullable=False column.
NullInNotNull(task_in, changed) ==
    \E k \in changed \cap NotNull : task_in[k] = None

\* models.TaskRead: every column of the row.
TaskRead(task) ==
    [id |-> task.id, title |-> task.title, description |-> task.description,
     completed |-> task.completed, due_date |-> task.due_date,
     owner_id |-> task.owner_id, created_at |-> task.created_at,
     updated_at |-> task.updated_at]

not_found == HTTPException(404, "Task not found.")

\* select(Task).where(Task.id == task_id, Task.owner_id == current_user.id)
TaskByIdOnly(table, task_id, current_user) ==
    {t \in table : t.id = task_id}

OwnedTask(table, task_id, current_user) ==
    {t \in table : t.id = task_id /\ t.owner_id = current_user.id}

\* select(Task).where(Task.owner_id == current_user.id)
OwnedTasksOfAnyone(table, current_user) == table

OwnedTasks(table, current_user) ==
    {t \in table : t.owner_id = current_user.id}

(***************************************************************************)
(* dependencies.py: Depends(get_current_user) of get_my_profile and of the *)
(* task handlers.                                                          *)
(***************************************************************************)
\* Line 22: the payload of the token as the application's clock judges it
\* when the request arrives, or None.
DecodedPayloadUnverified(token) == Some(token.claims)

DecodedPayload(token) == decode_access_token(token, now)

\* The Creates whose INSERT has yet to draw from the id sequence.
PendingTaskInserts ==
    Cardinality({r \in Reqs : /\ sess[r].op = "create_task"
                              /\ sess[r].pc \in {"identity", "insert"}})

\* The ids of the rows inserted and not yet committed.
UncommittedTaskIds ==
    {sess[r].task.id : r \in {q \in Reqs : sess[q].op = "create_task"
                                           /\ sess[q].pc = "commit"}}

\* The ids the sequence has handed out whose row was committed and is no
\* longer in the store: the ids of the deleted tasks.
DeletedIds ==
    {id \in 1..task_seq : /\ \A t \in tasks : t.id # id
                          /\ id \notin UncommittedTaskIds}

\* The first round trip the handler body awaits.
FirstStep(op) ==
    IF op = "create_task" THEN "insert"
    ELSE IF op \in {"list_tasks", "get_task"} THEN "query"
    ELSE "lookup"

\* Lines 13-25 for a request of get_my_profile or of a task handler: the
\* token is decoded when the request arrives; a token that does not decode, or whose payload has no
\* sub, is answered 401 before the session has sent a statement.  The
\* dependency then suspends in await db.execute.  The field late is a
\* history field: it records whether the request arrived with the Delete of
\* its task id committed, and no guard or effect of an action depends on it.
get_current_user_decode(r, op, arg, task_in) ==
    LET payload == DecodedPayload(arg.token)
    IN  /\ FirstIdle(r)
        /\ IF payload = None \/ "sub" \notin DOMAIN payload[1]
              THEN /\ last' = Done(op, arg, credentials_exception)
                   /\ sess' = sess
              ELSE /\ op = "create_task" => task_seq + PendingTaskInserts < MaxTaskSeq
                   /\ sess' = [sess EXCEPT ![r] =
                                 [op |-> op, pc |-> "identity", arg |-> arg,
                                  task_in |-> task_in,
                                  username |-> payload[1].sub,
                                  late |-> /\ "task_id" \in DOMAIN arg
                                           /\ arg.task_id \in DeletedIds]]
                   /\ last' = last
        /\ UNCHANGED <<users, user_seq, tasks, task_seq, now, ticks, issued>>

\* Lines 26-31: the SELECT of the user the payload names.  It is the
\* session's first statement, so the transaction of the request begins here,
\* at the store's now(), and not when the token was judged.  No stored user
\* of that name is answered 401; the handler body runs, from its own first
\* await on, only with the user this step selected.
get_current_user_select(r) ==
    LET found == {u \in users : u.username = sess[r].username}
    IN  /\ sess[r].op \in {"create_task", "list_tasks", "get_task",
                           "update_task", "delete_task"}
        /\ sess[r].pc = "identity"
        /\ IF found = {}
              THEN /\ last' = Done(sess[r].op, sess[r].arg, credentials_exception)
                   /\ sess' = [sess EXCEPT ![r] = Idle]
              ELSE /\ sess' = [sess EXCEPT ![r] =
                                 [op |-> sess[r].op, pc |-> FirstStep(sess[r].op),
                                  arg |-> sess[r].arg,
                                  task_in |-> sess[r].task_in,
                                  current_user |-> CHOOSE u \in found : TRUE,
                                  began |-> now, task |-> None,
                                  late |-> sess[r].late]]
                   /\ last' = last
        /\ UNCHANGED <<users, user_seq, tasks, task_seq, now, ticks, issued>>

(***************************************************************************)
(* endpoints.py: POST /tasks/                                              *)
(***************************************************************************)
\* db.refresh(task): the row read back by primary key and the handler's
\* projection of it; InvalidRequestError when the store holds no such row.
Refreshed(task_id, table) ==
    LET row == {t \in table : t.id = task_id}
    IN  IF row = {}
           THEN Unhandled("InvalidRequestError")
           ELSE Response(200, "", TaskRead(CHOOSE t \in row : TRUE))

\* Lines 69-74 and the INSERT: completed takes the column default, the id
\* the next value of the sequence, created_at and updated_at the server's
\* now(), the start of the transaction.
InsertedTask(session, id) ==
    [id |-> id,
     title |-> session.task_in.title,
     description |-> session.task_in.description,
     completed |-> FALSE,
     due_date |-> session.task_in.due_date,
     owner_id |-> session.current_user.id,
     created_at |-> session.began,
     updated_at |-> session.began]

\* Lines 69-76 up to the flush of db.commit(): the Task object, db.add and
\* the INSERT.  The parameters are bound before the statement reaches the
\* store, so a due date that does not bind draws no id.  The row is visible
\* to this session alone until the COMMIT.
create_task_insert(r) ==
    /\ sess[r].op = "create_task"
    /\ sess[r].pc = "insert"
    /\ IF ~TimestampBinds(sess[r].task_in.due_date)
          THEN /\ last' = Done("create_task", sess[r].arg, Unhandled("DBAPIError"))
               /\ sess' = [sess EXCEPT ![r] = Idle]
               /\ task_seq' = task_seq
          ELSE /\ task_seq' = task_seq + 1
               /\ sess' = [sess EXCEPT ![r].task = InsertedTask(sess[r], task_seq + 1),
                                       ![r].pc = "commit"]
               /\ last' = last
    /\ UNCHANGED <<users, user_seq, tasks, now, ticks, issued>>

\* Line 76, the COMMIT of db.commit(): the row is visible to every other
\* request from here on, while the handler waits at db.refresh.
create_task_commit(r) ==
    /\ sess[r].op = "create_task"
    /\ sess[r].pc = "commit"
    /\ tasks' = tasks \cup {sess[r].task}
    /\ sess' = [sess EXCEPT ![r].pc = "refresh"]
    /\ UNCHANGED <<users, user_seq, task_seq, now, ticks, issued, last>>

\* Lines 77-87: db.refresh(task) and the projection.
create_task_refresh(r) ==
    /\ sess[r].op = "create_task"
    /\ sess[r].pc = "refresh"
    /\ last' = Done("create_task", sess[r].arg, Refreshed(sess[r].task.id, tasks))
    /\ sess' = [sess EXCEPT ![r] = Idle]
    /\ UNCHANGED <<users, user_seq, tasks, task_seq, now, ticks, issued>>

(***************************************************************************)
(* endpoints.py: GET /tasks/                                               *)
(***************************************************************************)
\* Lines 93-107: the query and the projections.  The answer is the JSON
\* array of the projections, kept as the set of its items: the query has no
\* ORDER BY and ids are unique.
list_tasks(r) ==
    /\ sess[r].op = "list_tasks"
    /\ sess[r].pc = "query"
    /\ last' = Done("list_tasks", sess[r].arg,
                    Response(200, "",
                             [items |-> {TaskRead(t) :
                                           t \in OwnedTasks(tasks, sess[r].current_user)}]))
    /\ sess' = [sess EXCEPT ![r] = Idle]
    /\ UNCHANGED <<users, user_seq, tasks, task_seq, now, ticks, issued>>

(***************************************************************************)
(* endpoints.py: GET /tasks/{task_id}                                      *)
(***************************************************************************)
\* Lines 113-127: the ownership query and the projection.
get_task(r) ==
    /\ sess[r].op = "get_task"
    /\ sess[r].pc = "query"
    /\ LET task == OwnedTask(tasks, sess[r].arg.task_id, sess[r].current_user)
       IN  last' = Done("get_task", sess[r].arg,
                        IF task = {}
                           THEN not_found
                           ELSE Response(200, "", TaskRead(CHOOSE t \in task : TRUE)))
    /\ sess' = [sess EXCEPT ![r] = Idle]
    /\ UNCHANGED <<users, user_seq, tasks, task_seq, now, ticks, issued>>

(***************************************************************************)
(* endpoints.py: PUT /tasks/{task_id}                                      *)
(***************************************************************************)
\* The row the UPDATE leaves: the changed columns take the body's values,
\* updated_at takes now() by onupdate, every other column keeps its value.
UpdatedRowReassigned(old, task_in, changed, began) ==
    [old EXCEPT !.owner_id = 3 - old.owner_id, !.updated_at = began]

UpdatedRow(old, task_in, changed, began) ==
    [id |-> old.id,
     title |-> IF "title" \in changed THEN task_in.title[1] ELSE old.title,
     description |-> IF "description" \in changed
                        THEN task_in.description ELSE old.description,
     completed |-> IF "completed" \in changed
                      THEN task_in.completed[1] ELSE old.completed,
     due_date |-> IF "due_date" \in changed THEN task_in.due_date ELSE old.due_date,
     owner_id |-> old.owner_id,
     created_at |-> old.created_at,
     updated_at |-> began]

\* A commit that writes the loaded row back whether or not the store still
\* holds it.
UpdateCommitUpserts(session, table) ==
    LET new == [session.task EXCEPT !.updated_at = session.began]
    IN  [tasks |-> {t \in table : t.id # new.id} \cup {new}, raised |-> ""]

\* Line 145 on a table: db.commit() flushes an UPDATE of the changed columns
\* by primary key (with updated_at = now(), the start of the transaction)
\* when any attribute changed, and nothing otherwise.  The UPDATE's
\* parameters are bound before the statement reaches the store; an UPDATE
\* that matches no row is a StaleDataError.  raised names the exception, ""
\* when none.
UpdateCommit(session, table) ==
    LET task == session.task
        task_in == session.task_in
        changed == NetChanges(task, task_in)
        row == {t \in table : t.id = task.id}
    IN  IF changed = {}
           THEN [tasks |-> table, raised |-> ""]
           ELSE IF "due_date" \in changed /\ ~TimestampBinds(task_in.due_date)
           THEN [tasks |-> table, raised |-> "DBAPIError"]
           ELSE IF row = {}
           THEN [tasks |-> table, raised |-> "StaleDataError"]
           ELSE IF NullInNotNull(task_in, changed)
           THEN [tasks |-> table, raised |-> "IntegrityError"]
           ELSE LET old == CHOOSE t \in row : TRUE
                    new == UpdatedRow(old, task_in, changed, session.began)
                IN  [tasks |-> (table \ row) \cup {new}, raised |-> ""]

\* Lines 138-144: the ownership query and the setattr loop.
update_task_lookup(r) ==
    /\ sess[r].op = "update_task"
    /\ sess[r].pc = "lookup"
    /\ LET task == OwnedTask(tasks, sess[r].arg.task_id, sess[r].current_user)
       IN  IF task = {}
              THEN /\ last' = Done("update_task", sess[r].arg, not_found)
                   /\ sess' = [sess EXCEPT ![r] = Idle]
              ELSE /\ sess' = [sess EXCEPT ![r].task = CHOOSE t \in task : TRUE,
                                           ![r].pc = "commit"]
                   /\ last' = last
    /\ UNCHANGED <<users, user_seq, tasks, task_seq, now, ticks, issued>>

\* Line 145: db.commit(), the UPDATE and the COMMIT.  The UPDATE holds the
\* lock of the row until the COMMIT, so no other request writes the row
\* between the two, and what the UPDATE wrote is visible to the other
\* requests from the COMMIT on, while the handler waits at db.refresh.
update_task_commit(r) ==
    /\ sess[r].op = "update_task"
    /\ sess[r].pc = "commit"
    /\ LET done == UpdateCommit(sess[r], tasks)
       IN  /\ tasks' = done.tasks
           /\ IF done.raised = ""
                 THEN /\ sess' = [sess EXCEPT ![r].pc = "refresh"]
                      /\ last' = last
                 ELSE /\ sess' = [sess EXCEPT ![r] = Idle]
                      /\ last' = Done("update_task", sess[r].arg, Unhandled(done.raised))
    /\ UNCHANGED <<users, user_seq, task_seq, now, ticks, issued>>

\* Lines 146-156: db.refresh(task) and the projection.
update_task_refresh(r) ==
    /\ sess[r].op = "update_task"
    /\ sess[r].pc = "refresh"
    /\ last' = Done("update_task", sess[r].arg, Refreshed(sess[r].task.id, tasks))
    /\ sess' = [sess EXCEPT ![r] = Idle]
    /\ UNCHANGED <<users, user_seq, tasks, task_seq, now, ticks, issued>>

(***************************************************************************)
(* endpoints.py: DELETE /tasks/{task_id}                                   *)
(***************************************************************************)
\* Lines 167-169 on a table: db.delete and db.commit() (the DELETE by primary
\* key; a row already gone is a warning, not an error), then 204 with no
\* further await.
DeleteCommitAllOfOwner(task, table) ==
    [tasks |-> {t \in table : t.owner_id # task.owner_id},
     resp |-> Response(204, "", None)]

DeleteCommitKeepsRow(task, table) ==
    [tasks |-> table, resp |-> Response(204, "", None)]

DeleteCommit(task, table) ==
    [tasks |-> {t \in table : t.id # task.id}, resp |-> Response(204, "", None)]

\* Lines 162-166: the ownership query.
delete_task_lookup(r) ==
    /\ sess[r].op = "delete_task"
    /\ sess[r].pc = "lookup"
    /\ LET task == OwnedTask(tasks, sess[r].arg.task_id, sess[r].current_user)
       IN  IF task = {}
              THEN /\ last' = Done("delete_task", sess[r].arg, not_found)
                   /\ sess' = [sess EXCEPT ![r] = Idle]
              ELSE /\ sess' = [sess EXCEPT ![r].task = CHOOSE t \in task : TRUE,
                                           ![r].pc = "commit"]
                   /\ last' = last
    /\ UNCHANGED <<users, user_seq, tasks, task_seq, now, ticks, issued>>

\* Lines 167-169: db.delete, db.commit() (the DELETE and the COMMIT, the row
\* locked between the two) and the answer.
delete_task_commit(r) ==
    /\ sess[r].op = "delete_task"
    /\ sess[r].pc = "commit"
    /\ LET done == DeleteCommit(sess[r].task, tasks)
       IN  /\ tasks' = done.tasks
           /\ last' = Done("delete_task", sess[r].arg, done.resp)
    /\ sess' = [sess EXCEPT ![r] = Idle]
    /\ UNCHANGED <<users, user_seq, task_seq, now, ticks, issued>>

(***************************************************************************)
(* The clock.                                                              *)
(***************************************************************************)
Minute == 1 * 60
Day == 24 * 60 * Minute
DayAndHour == 25 * 60 * Minute
TickSteps == {Minute, Day, DayAndHour}

Tick(d, max) ==
    /\ ticks < max
    /\ now' = now + d
    /\ ticks' = ticks + 1
    /\ UNCHANGED <<users, user_seq, tasks, task_seq, issued, sess, last>>

(***************************************************************************)
(* Specifications.                                                         *)
(***************************************************************************)
NoResponse == [op |-> "none", n |-> 0]

Init ==
    /\ users = {}
    /\ user_seq = 0
    /\ tasks = {}
    /\ task_seq = 0
    /\ now = 0
    /\ ticks = 0
    /\ issued = {}
    /\ sess = [r \in Reqs |-> Idle]
    /\ last = NoResponse

NextAuth ==
    \/ \E r \in Reqs, user_in \in SomeRegistrations : register_user_check(r, user_in)
    \/ \E r \in Reqs : register_user_insert(r)
    \/ \E r \in Reqs : register_user_insert_resumes(r)
    \/ \E r \in Reqs : register_user_commit(r)
    \/ \E r \in Reqs : register_user_refresh(r)
    \/ \E user_in \in UserLogins : login_user(user_in)
    \/ \E r \in Reqs, token \in Presentable :
          get_current_user_decode(r, "profile", [token |-> token], None)
    \/ \E r \in Reqs : get_my_profile(r)
    \/ \E d \in TickSteps : Tick(d, MaxTicks)

SpecAuth == Init /\ [][NextAuth]_vars

\* The task operations start from a state registrations and logins lead to:
\* alice and bob registered and logged in at time 0; now is a day later, the
\* last instant their tokens are accepted.
RegisteredUser(id, username, email, password) ==
    [id |-> id, username |-> username, email |-> email,
     hashed_password |-> get_password_hash(password), created_at |-> 0]

TwoUsers ==
    {RegisteredUser(1, "alice", "a@x.com", "secret1"),
     RegisteredUser(2, "bob", "b@x.com", "secret1")}

\* The store no task was created in yet.
InitCreate ==
    /\ users = TwoUsers
    /\ user_seq = 2
    /\ tasks = {}
    /\ task_seq = 0
    /\ now = Day
    /\ ticks = 0
    /\ issued = {create_access_token([sub |-> u], 0) : u \in Usernames}
    /\ sess = [r \in Reqs |-> Idle]
    /\ last = NoResponse

\* The task alice created first, at time 0.
FirstTask(task_in) ==
    [id |-> 1, title |-> task_in.title, description |-> task_in.description,
     completed |-> FALSE, due_date |-> task_in.due_date, owner_id |-> 1,
     created_at |-> 0, updated_at |-> 0]

\* The store after alice created her first task.
InitTasks ==
    /\ users = TwoUsers
    /\ user_seq = 2
    /\ tasks = {FirstTask([title |-> "buy milk", description |-> None,
                           due_date |-> None])}
    /\ task_seq = 1
    /\ now = Day
    /\ ticks = 0
    /\ issued = {create_access_token([sub |-> u], 0) : u \in Usernames}
    /\ sess = [r \in Reqs |-> Idle]
    /\ last = NoResponse

\* The id the Gets, Updates and Deletes name: that of alice's first task.
SomeTaskIds == {1}

\* The request bodies the task operations are given.  Creates with one
\* title, no description and no due date or one with a UTC offset.
DueDateCreates ==
    {t \in TaskCreates : /\ t.title = "buy milk"
                         /\ t.description = None
                         /\ t.due_date \in {None, Some([at |-> "2030-01-01T00:00:00",
                                                        tzinfo |-> Some("UTC")])}}

\* The one of them without a due date.
SomeTaskCreates == {t \in DueDateCreates : t.due_date = None}

\* Updates that set completed.
SomeTaskUpdates ==
    {t \in TaskUpdates : t.sent = {"completed"} /\ t.completed = Some(TRUE)}

\* The requests of Create, Get, Update and Delete with tokens, ids and
\* bodies of the given sets: each begins with the dependency.
TaskRequest(r, tokens, ids, creates, updates) ==
    \/ \E token \in tokens, task_in \in creates :
          get_current_user_decode(r, "create_task", [token |-> token], task_in)
    \/ \E token \in tokens, task_id \in ids :
          get_current_user_decode(r, "get_task",
                                  [token |-> token, task_id |-> task_id], None)
    \/ \E token \in tokens, task_id \in ids, task_in \in updates :
          get_current_user_decode(r, "update_task",
                                  [token |-> token, task_id |-> task_id], task_in)
    \/ \E token \in tokens, task_id \in ids :
          get_current_user_decode(r, "delete_task",
                                  [token |-> token, task_id |-> task_id], None)

\* Every handler runs up to its next await in one step; the steps of the
\* requests in flight interleave with each other and with the clock.
TaskStep(r) ==
    \/ get_current_user_select(r)
    \/ create_task_insert(r)
    \/ create_task_commit(r)
    \/ create_task_refresh(r)
    \/ get_task(r)
    \/ update_task_lookup(r)
    \/ update_task_commit(r)
    \/ update_task_refresh(r)
    \/ delete_task_lookup(r)
    \/ delete_task_commit(r)

\* Creates, Gets, Updates and Deletes of both users.
NextTasks ==
    \/ \E r \in Reqs : TaskRequest(r, issued, SomeTaskIds, SomeTaskCreates, SomeTaskUpdates)
    \/ \E r \in Reqs : TaskStep(r)
    \/ Tick(Minute, MaxTaskTicks)

SpecTasks == InitTasks /\ [][NextTasks]_vars

\* Creates and Lists of both users on a store that starts empty.
NextCreate ==
    \/ \E r \in Reqs, token \in issued, task_in \in DueDateCreates :
          get_current_user_decode(r, "create_task", [token |-> token], task_in)
    \/ \E r \in Reqs, token \in issued :
          get_current_user_decode(r, "list_tasks", [token |-> token], None)
    \/ \E r \in Reqs : get_current_user_select(r)
    \/ \E r \in Reqs : create_task_insert(r)
    \/ \E r \in Reqs : create_task_commit(r)
    \/ \E r \in Reqs : create_task_refresh(r)
    \/ \E r \in Reqs : list_tasks(r)
    \/ Tick(Minute, MaxTaskTicks)

SpecCreate == InitCreate /\ [][NextCreate]_vars

(***************************************************************************)
(* The requests of the owner of one task.  The start is the state a day    *)
(* after alice created her first task and logged in, both at time 0: the   *)
(* last instant her token is accepted.                                     *)
(***************************************************************************)
InitUpdate ==
    /\ users = TwoUsers
    /\ user_seq = 2
    /\ tasks = {FirstTask([title |-> "buy milk", description |-> None,
                           due_date |-> None])}
    /\ task_seq = 1
    /\ now = Day
    /\ ticks = 0
    /\ issued = {create_access_token([sub |-> "alice"], 0)}
    /\ sess = [r \in Reqs |-> Idle]
    /\ last = NoResponse

\* The tokens presented for alice's tasks: the one login returned to her
\* and, issued with it, one for a user whose record is gone.
OwnerTokens == issued \cup {Orphaned(0)}

\* The five task operations of one user and of a caller the store does not
\* know.
NextOwner ==
    \/ \E r \in Reqs :
          TaskRequest(r, OwnerTokens, SomeTaskIds, SomeTaskCreates, SomeTaskUpdates)
    \/ \E r \in Reqs, token \in OwnerTokens :
          get_current_user_decode(r, "list_tasks", [token |-> token], None)
    \/ \E r \in Reqs : TaskStep(r)
    \/ \E r \in Reqs : list_tasks(r)
    \/ Tick(Minute, MaxTaskTicks)

SpecOwner == InitUpdate /\ [][NextOwner]_vars

\* Updates that name nothing, set completed, send completed as null or
\* change the title.
RaceUpdates ==
    {t \in TaskUpdates : \/ t.sent = {}
                         \/ t.sent = {"completed"} /\ t.completed \in {None, Some(TRUE)}
                         \/ t.sent = {"title"} /\ t.title = Some("walk dog")}

\* Updates and Deletes of the task by its owner, whose steps interleave.
RaceRequest(r) ==
    \/ \E token \in issued, task_in \in RaceUpdates :
          get_current_user_decode(r, "update_task",
                                  [token |-> token, task_id |-> 1], task_in)
    \/ \E token \in issued :
          get_current_user_decode(r, "delete_task",
                                  [token |-> token, task_id |-> 1], None)

RaceStep(r) ==
    \/ get_current_user_select(r)
    \/ update_task_lookup(r)
    \/ update_task_commit(r)
    \/ update_task_refresh(r)
    \/ delete_task_lookup(r)
    \/ delete_task_commit(r)

NextRace ==
    \/ \E r \in Reqs : RaceRequest(r)
    \/ \E r \in Reqs : RaceStep(r)
    \/ Tick(Minute, MaxTaskTicks)

SpecRace == InitUpdate /\ [][NextRace]_vars

(***************************************************************************)
(* Properties.                                                             *)
(***************************************************************************)
\* The step sends a response.
Responded == last'.n # last.n

TaskOps == {"create_task", "list_tasks", "get_task", "update_task", "delete_task"}

\* The token is signed with the server's key, carries a subject and is not
\* past its expiry on the given clock.
Decodes(token, clock) ==
    /\ token.sig = Sign(SECRET_KEY, token.claims)
    /\ "sub" \in DOMAIN token.claims
    /\ token.claims.exp >= clock

\* The user a token names by its subject.
Holder(token, table) ==
    {u \in table : "sub" \in DOMAIN token.claims /\ u.username = token.claims.sub}

\* Session r takes a step.
Stepped(r) == sess'[r] # sess[r]

\* A GET /users/me is presented now: the decoding refuses it, or admits it
\* to session r, where the SELECT of the user answers it at a later step.
ProfileRefused == Responded /\ last'.op = "profile" /\ sess' = sess

ProfileAdmitted(r) == sess[r] = Idle /\ sess'[r].op = "profile"

ProfileSelected(r) == sess[r].op = "profile" /\ Stepped(r)

\* Session r runs the ownership query of a Get, an Update or a Delete.
OwnershipQuery(r) ==
    /\ sess[r].op \in {"get_task", "update_task", "delete_task"}
    /\ sess[r].pc \in {"query", "lookup"}
    /\ Stepped(r)

\* C1: the ownership query of a Get, Update or Delete made with the identity
\* of a user who is not the owner of the task stored under the id answers 404
\* "Task not found.", the answer for an id that does not exist, and leaves
\* the tasks as they were; the identity is that of the user the token names.
C1_CrossUserNotFound ==
    [][\A r \in Reqs :
          (/\ OwnershipQuery(r)
           /\ \E t \in tasks : /\ t.id = sess[r].arg.task_id
                               /\ t.owner_id # sess[r].current_user.id)
          => (/\ Responded
              /\ last'.op = sess[r].op
              /\ last'.arg = sess[r].arg
              /\ last'.status = not_found.status
              /\ last'.detail = not_found.detail
              /\ last'.body = None
              /\ sess[r].current_user \in Holder(sess[r].arg.token, users)
              /\ tasks' = tasks)]_vars

\* C1 witness: bob, holding his own token, asked to delete a task of alice
\* that is in the store, and was answered 404.
C1_Witness ==
    /\ last.op = "delete_task"
    /\ last.status = 404
    /\ last.arg.token \in issued
    /\ \E u \in Holder(last.arg.token, users) :
          \E t \in tasks : t.id = last.arg.task_id /\ t.owner_id # u.id

\* C2: a registration whose existence check finds the store holding a user
\* with the requested username or the requested email is answered 400 and
\* creates no user.
C2_RegisterConflict ==
    [][(/\ Responded
        /\ last'.op = "register"
        /\ sess' = sess
        /\ \E u \in users : u.username = last'.arg.username \/ u.email = last'.arg.email)
       => (last'.status = 400 /\ users' = users)]_vars

\* C3: a registration that passed the existence check and whose INSERT meets
\* the username in the store, committed by another registration meanwhile,
\* is answered 400 (Conflict).
C3_RaceEndsInConflict ==
    [][(/\ Responded
        /\ last'.op = "register"
        /\ \E r \in Reqs : /\ sess[r].op = "register"
                           /\ sess[r].pc \in {"insert", "insert_wait"}
                           /\ Stepped(r)
        /\ \E u \in users : u.username = last'.arg.username)
       => (last'.status = 400 /\ users' = users)]_vars

\* C4: no two user records share a username, an email or an id.
C4_UsersUnique ==
    \A u, v \in users :
        u # v => u.username # v.username /\ u.email # v.email /\ u.id # v.id

\* C4 witness: two registrations interleaved, the second commit was refused
\* and the first one's user is stored.
C4_Witness ==
    /\ last.op = "register"
    /\ last.raised = "IntegrityError"
    /\ \E u \in users : u.username = last.arg.username \/ u.email = last.arg.email

\* C5: a login with the username and password of a registered user is
\* answered 200 with a bearer token for that username, and a token login
\* returned, presented before its expiry, resolves to the user of that name:
\* the decoding does not refuse it and the SELECT answers 200 with the user.
C5_RegisterLoginResolve ==
    [][/\ (/\ Responded
           /\ last'.op = "login"
           /\ \E u \in users : /\ u.username = last'.arg.username
                               /\ u.hashed_password = get_password_hash(last'.arg.password))
          => (/\ last'.status = 200
              /\ last'.body.token_type = "bearer"
              /\ last'.body.access_token \in issued'
              /\ last'.body.access_token.claims.sub = last'.arg.username
              /\ last'.body.access_token.claims.exp > now)
       /\ (ProfileRefused /\ last'.arg.token \in issued)
          => ~(now < last'.arg.token.claims.exp)
       /\ \A r \in Reqs :
             (ProfileSelected(r) /\ sess[r].arg.token \in issued)
             => (/\ Responded
                 /\ last'.op = "profile"
                 /\ last'.arg = sess[r].arg
                 /\ last'.status = 200
                 /\ last'.body.username = sess[r].arg.token.claims.sub
                 /\ \E u \in users : last'.body = UserRead(u))]_vars

\* C5 witness: a token login returned was answered, a minute after its
\* issue, with the registered user it names.
C5_Witness ==
    /\ last.op = "profile"
    /\ last.status = 200
    /\ last.arg.token \in issued
    /\ now = last.arg.token.claims.exp - Day + Minute
    /\ last.body.username = last.arg.token.claims.sub

\* C6: the token login issues at time T expires at T + 24 hours; presented at
\* T + 1 minute it is accepted, presented at T + 25 hours or at any time past
\* its expiry it is rejected with 401.  Presented at an instant, a token is
\* refused there or admitted to the SELECT, which answers 200 with the user.
C6_TokenLifetime ==
    [][/\ (Responded /\ last'.op = "login" /\ last'.status = 200)
          => last'.body.access_token.claims.exp = now + Day
       /\ (ProfileRefused /\ last'.arg.token \in issued)
          => (/\ last'.status = 401
              /\ now # last'.arg.token.claims.exp - Day + Minute)
       /\ \A r \in Reqs :
             /\ (ProfileAdmitted(r) /\ sess'[r].arg.token \in issued)
                => (/\ now # sess'[r].arg.token.claims.exp - Day + DayAndHour
                    /\ ~(now > sess'[r].arg.token.claims.exp))
             /\ (ProfileSelected(r) /\ sess[r].arg.token \in issued)
                => (Responded /\ last'.op = "profile" /\ last'.status = 200)]_vars

\* C6 witness: a token login returned was presented 25 hours after its issue
\* and was answered 401.
C6_Witness ==
    /\ last.op = "profile"
    /\ last.status = 401
    /\ last.arg.token \in issued
    /\ now = last.arg.token.claims.exp - Day + DayAndHour

\* C7: login returns a token only for a stored username with the password
\* its hash was made from; every other login is answered with one and the
\* same response, 401 "Incorrect username or password.", and issues nothing.
C7_LoginFailsAlike ==
    [][(Responded /\ last'.op = "login")
       => IF \E u \in users : /\ u.username = last'.arg.username
                              /\ u.hashed_password = get_password_hash(last'.arg.password)
             THEN last'.status = 200 /\ last'.body.access_token \in issued'
             ELSE /\ last'.status = 401
                  /\ last'.detail = "Incorrect username or password."
                  /\ last'.body = None
                  /\ last'.raised = "HTTPException"
                  /\ issued' = issued]_vars

\* C7 witness: with users stored, a login for a username that is not stored
\* was answered 401.
C7_Witness ==
    /\ last.op = "login"
    /\ last.status = 401
    /\ users # {}
    /\ \A u \in users : u.username # last.arg.username

\* C8: GET /users/me is answered with a user only for a token that is signed
\* with the server's key, not past its expiry when presented and whose
\* subject is a stored username, and then with that user; a token with a
\* wrong signature, past its expiry, without a subject or naming no stored
\* user is answered with the one 401 "Could not validate credentials.".
C8_ResolveOrUnauthenticated ==
    [][/\ (Responded /\ last'.op = "profile")
          => LET token == last'.arg.token
             IN  /\ last'.status \in {200, 401}
                 /\ last'.status = 200
                    => (/\ token.sig = Sign(SECRET_KEY, token.claims)
                        /\ \E u \in Holder(token, users) : last'.body = UserRead(u)
                        /\ \E r \in Reqs : ProfileSelected(r))
                 /\ (\/ token.sig # Sign(SECRET_KEY, token.claims)
                     \/ "sub" \notin DOMAIN token.claims
                     \/ \A u \in users : u.username # token.claims.sub)
                    => last'.status = 401
                 /\ last'.status = 401
                    => (/\ last'.detail = "Could not validate credentials."
                        /\ last'.body = None)
       /\ ProfileRefused => ~Decodes(last'.arg.token, now)
       /\ \A r \in Reqs :
             /\ ProfileAdmitted(r)
                => (Decodes(sess'[r].arg.token, now) /\ last' = last)
             /\ ProfileSelected(r)
                => (/\ Responded
                    /\ last'.op = "profile"
                    /\ last'.arg = sess[r].arg
                    /\ last'.status = 200
                       <=> Holder(sess[r].arg.token, users) # {})]_vars

\* C8 witness: a token signed with the server's key, not past its expiry,
\* whose subject is the name of no stored user, was answered 401 while users
\* are stored.
C8_Witness ==
    /\ last.op = "profile"
    /\ last.status = 401
    /\ last.arg.token.sig = Sign(SECRET_KEY, last.arg.token.claims)
    /\ last.arg.token.claims.exp >= now
    /\ "sub" \in DOMAIN last.arg.token.claims
    /\ users # {}
    /\ \A u \in users : u.username # last.arg.token.claims.sub

\* C9: a request of a task operation whose identity does not resolve ends
\* with 401 "Could not validate credentials." with the set of tasks, every
\* task's fields and the id sequence as they were.  A token that does not
\* decode when the request arrives is answered before the session has sent
\* a statement; a decoded token whose subject is no stored user is answered
\* by the dependency's SELECT; neither step reads or writes a task.  The
\* steps of a handler body run only with a user the store holds under the
\* token's subject.
C9_UnauthenticatedTouchesNothing ==
    [][/\ (/\ Responded
           /\ last'.op \in TaskOps
           /\ sess' = sess)
          => (/\ ~Decodes(last'.arg.token, now)
              /\ last'.status = 401
              /\ last'.detail = "Could not validate credentials."
              /\ tasks' = tasks
              /\ task_seq' = task_seq)
       /\ \A r \in Reqs :
             /\ (sess[r] = Idle /\ Stepped(r))
                => (/\ Decodes(sess'[r].arg.token, now)
                    /\ sess'[r].pc = "identity"
                    /\ sess'[r].username = sess'[r].arg.token.claims.sub
                    /\ last' = last
                    /\ tasks' = tasks
                    /\ task_seq' = task_seq)
             /\ (sess[r].pc = "identity" /\ Stepped(r))
                => (/\ tasks' = tasks
                    /\ task_seq' = task_seq
                    /\ IF Holder(sess[r].arg.token, users) = {}
                          THEN /\ Responded
                               /\ last'.op = sess[r].op
                               /\ last'.arg = sess[r].arg
                               /\ last'.status = 401
                               /\ last'.detail = "Could not validate credentials."
                               /\ sess'[r] = Idle
                          ELSE /\ last' = last
                               /\ sess'[r].pc = FirstStep(sess[r].op)
                               /\ sess'[r].current_user
                                     \in Holder(sess[r].arg.token, users))
             /\ (sess[r].pc \notin {"idle", "identity"} /\ Stepped(r))
                => sess[r].current_user \in Holder(sess[r].arg.token, users)]_vars

\* C9 witness: the owner of a stored task asked to delete it with a token
\* past its expiry and was answered 401; the task is in the store.
C9_Witness ==
    /\ last.op = "delete_task"
    /\ last.status = 401
    /\ last.arg.token \in issued
    /\ last.arg.token.claims.exp < now
    /\ \E t \in tasks, u \in users :
          /\ t.id = last.arg.task_id
          /\ t.owner_id = u.id
          /\ u.username = last.arg.token.claims.sub

\* The value of field k in a projection, as a request body writes it.
Sent(body, k) ==
    IF k \in NotNull THEN Some(body[k]) ELSE body[k]

\* C10: an Update whose ownership query found the caller's task commits and
\* is answered 200 with the task; its commit leaves every field the request
\* names (null included) with the request's value and every other field with
\* the value it had.
C10_UpdateAlwaysSucceeds ==
    [][\A r \in Reqs :
          (sess[r].op = "update_task" /\ Stepped(r))
          => /\ sess[r].pc = "commit"
                => /\ sess'[r].pc = "refresh"
                   /\ \A t \in tasks :
                         t.id = sess[r].task.id
                         => \E s \in tasks' :
                               /\ s.id = t.id
                               /\ \A k \in TaskFields :
                                     IF k \in sess[r].task_in.sent
                                        THEN Sent(s, k) = sess[r].task_in[k]
                                        ELSE s[k] = t[k]
             /\ sess[r].pc = "refresh"
                => (last'.status = 200 /\ last'.body.id = sess[r].task.id)]_vars

\* C11: an Update answered 200, begun at a time later than the last write of
\* the task it loaded, is answered with an updated_at later than the one it
\* loaded and with the created_at it loaded, whatever the request body.
C11_UpdateAdvancesUpdatedAt ==
    [][\A r \in Reqs :
          (/\ sess[r].op = "update_task"
           /\ sess[r].pc = "refresh"
           /\ Stepped(r)
           /\ last'.status = 200
           /\ sess[r].task.updated_at < sess[r].began)
          => (/\ last'.body.updated_at > sess[r].task.updated_at
              /\ last'.body.created_at = sess[r].task.created_at)]_vars

\* What holds of the commits that write the row: the row takes the start of
\* the writer's transaction as updated_at and keeps its created_at.
C11_WritingUpdateStamps ==
    [][\A r \in Reqs :
          (sess[r].op = "update_task" /\ sess[r].pc = "commit" /\ Stepped(r))
          => \A t \in tasks, s \in tasks' :
                (s.id = t.id /\ s # t)
                => (/\ s.created_at = t.created_at
                    /\ s.updated_at = sess[r].began)]_vars

C13_ListExactlyOwn ==
    [][\A r \in Reqs :
          (sess[r].op = "list_tasks" /\ sess[r].pc = "query" /\ Stepped(r))
          => LET u == sess[r].current_user
             IN  /\ Responded
                 /\ last'.op = "list_tasks"
                 /\ last'.arg = sess[r].arg
                 /\ last'.status = 200
                 /\ u \in Holder(sess[r].arg.token, users)
                 /\ \A t \in tasks :
                       t.owner_id = u.id
                       <=> \E b \in last'.body.items : b.id = t.id
                 /\ \A b \in last'.body.items :
                       \E t \in tasks :
                          /\ t.owner_id = u.id
                          /\ b = TaskRead(t)
                 /\ tasks' = tasks]_vars

\* C13 witness: a user listed tasks, was given some, and the store held a
\* task of another user, which the answer left out.
C13_Witness ==
    /\ last.op = "list_tasks"
    /\ last.status = 200
    /\ last.body.items # {}
    /\ \E u \in Holder(last.arg.token, users) :
          /\ \E t \in tasks : t.owner_id # u.id /\ \A b \in last.body.items : b.id # t.id
          /\ \E t \in tasks : t.owner_id = u.id /\ TaskRead(t) \in last.body.items

\* What the steps of a Create whose INSERT is accepted do: the INSERT draws
\* an id no row has or had, the COMMIT adds exactly the row: owned by the
\* resolved user, not completed, with the request's title, description and
\* due date.
CreateAdds(r) ==
    /\ sess[r].pc = "insert"
       => /\ sess'[r].pc = "commit"
          /\ sess'[r].task.id > task_seq
          /\ sess'[r].task.id \notin UncommittedTaskIds
          /\ \A s \in tasks : s.id # sess'[r].task.id
          /\ tasks' = tasks
    /\ sess[r].pc = "commit"
       => \E t \in tasks' :
             /\ t \notin tasks
             /\ tasks' = tasks \cup {t}
             /\ t.owner_id = sess[r].current_user.id
             /\ t.completed = FALSE
             /\ t.title = sess[r].task_in.title
             /\ t.description = sess[r].task_in.description
             /\ t.due_date = sess[r].task_in.due_date
             /\ \A s \in tasks : s.id # t.id

\* C14: a Create with a resolved identity and a body the schema accepts adds
\* exactly one task: owned by the resolved user, not completed, with the
\* request's title, description and due date, and with an id no task has or
\* had; and it is answered 200 with that task.
C14_CreateAlwaysSucceeds ==
    [][\A r \in Reqs :
          (sess[r].op = "create_task" /\ Stepped(r))
          => /\ CreateAdds(r)
             /\ sess[r].pc = "refresh"
                => (/\ last'.status = 200
                    /\ \E t \in tasks : last'.body = TaskRead(t)
                                        /\ t.id = sess[r].task.id)]_vars

\* What holds of the bodies whose due date is absent or carries no UTC
\* offset: such a Create adds the task as requested.
C14_CreateNaiveDueDateAdds ==
    [][\A r \in Reqs :
          (/\ sess[r].op = "create_task"
           /\ Stepped(r)
           /\ TimestampBinds(sess[r].task_in.due_date))
          => CreateAdds(r)]_vars

\* C15: every stored task has one owner, a stored user; no two rows share an
\* id; no step, an Update with any body included, gives a task another
\* owner than the one it was created with, which is the user the token of
\* its Create names.
C15_OwnerFixed ==
    [][/\ \A t \in tasks' : \E u \in users' : u.id = t.owner_id
       /\ \A t \in tasks', s \in tasks' : s.id = t.id => s = t
       /\ \A t \in tasks, s \in tasks' : s.id = t.id => s.owner_id = t.owner_id
       /\ (Responded /\ last'.op = "create_task" /\ last'.status = 200)
          => \E u \in Holder(last'.arg.token, users) :
                last'.body.owner_id = u.id
      ]_vars

\* C15 witness: the store holds tasks of two owners and an Update of one of
\* them by its owner was just answered with the task.
C15_Witness ==
    /\ last.op = "update_task"
    /\ last.status = 200
    /\ \E t \in tasks :
          /\ t.id = last.arg.task_id
          /\ last.body = TaskRead(t)
          /\ \E u \in Holder(last.arg.token, users) : t.owner_id = u.id
          /\ \E s \in tasks : s.owner_id # t.owner_id

C16_OnlyIssuedTokensAccepted ==
    [][(Responded /\ last'.op = "profile")
       => LET token == last'.arg.token
          IN  /\ last'.status = 200
                 => (/\ token \in issued
                     /\ last'.body.username = token.claims.sub)
              /\ (\/ \E t \in issued : token \in Tampered(t)
                  \/ token.sig.key # SECRET_KEY)
                 => (/\ last'.status = 401
                     /\ last'.detail = credentials_exception.detail
                     /\ last'.body = None)]_vars

\* C16 witness: an issued token, not past its expiry, was presented with its
\* subject changed to another stored user and was answered 401.
C16_Witness ==
    /\ last.op = "profile"
    /\ last.status = 401
    /\ last.arg.token \notin issued
    /\ \E t \in issued :
          /\ last.arg.token \in Tampered(t)
          /\ last.arg.token.sig = t.sig
          /\ last.arg.token.claims.sub # t.claims.sub
          /\ t.claims.exp > now
    /\ \E u \in users : u.username = last.arg.token.claims.sub

\* C17: a token login issued, naming a stored user, is accepted exactly when
\* now < expiry: presented at the instant now = expiry it is answered 401.
\* Accepted is admitted by the decoding, the SELECT then answering 200.
C17_ValidExactlyBeforeExpiry ==
    [][/\ (/\ ProfileRefused
           /\ last'.arg.token \in issued
           /\ \E u \in users : u.username = last'.arg.token.claims.sub)
          => ~(now < last'.arg.token.claims.exp)
       /\ \A r \in Reqs :
             /\ (/\ ProfileAdmitted(r)
                 /\ sess'[r].arg.token \in issued
                 /\ \E u \in users : u.username = sess'[r].arg.token.claims.sub)
                => now < sess'[r].arg.token.claims.exp
             /\ (/\ ProfileSelected(r)
                 /\ sess[r].arg.token \in issued
                 /\ \E u \in users : u.username = sess[r].arg.token.claims.sub)
                => last'.status = 200]_vars

\* What holds instead: such a token is accepted exactly when it is presented
\* at now <= expiry, and is then answered 200 whenever the SELECT returns.
C17_ValidThroughExpiry ==
    [][/\ (/\ ProfileRefused
           /\ last'.arg.token \in issued
           /\ \E u \in users : u.username = last'.arg.token.claims.sub)
          => ~(now <= last'.arg.token.claims.exp)
       /\ \A r \in Reqs :
             /\ (/\ ProfileAdmitted(r)
                 /\ sess'[r].arg.token \in issued
                 /\ \E u \in users : u.username = sess'[r].arg.token.claims.sub)
                => now <= sess'[r].arg.token.claims.exp
             /\ (/\ ProfileSelected(r)
                 /\ sess[r].arg.token \in issued
                 /\ \E u \in users : u.username = sess[r].arg.token.claims.sub)
                => last'.status = 200]_vars

\* C18: with the lookups, commits and refreshes of the owner's concurrent
\* requests interleaved, a task a committed Delete removed is never in the store
\* again: an Update that looked the task up before the Delete committed and
\* commits after it leaves the store as it is and is not answered 200.
C18_NoResurrection ==
    [][\A id \in DeletedIds :
          /\ \A t \in tasks' : t.id # id
          /\ (/\ Responded
              /\ last'.op = "update_task"
              /\ last'.arg.task_id = id)
             => (tasks' = tasks /\ last'.status # 200)]_vars

\* C18 witness: an Update that had found the task committed after the
\* Delete of the task had, and failed; the store does not hold the task.
C18_Witness ==
    /\ last.op = "update_task"
    /\ last.raised = "StaleDataError"
    /\ last.arg.task_id \in DeletedIds
    /\ \E u \in Holder(last.arg.token, users) : u.username = "alice"

====
